---- MODULE Spec2Model ----
(***************************************************************************)
(* State-machine model of the ask_ai_dagster resources:                    *)
(*   GithubResource._query               (cursor pagination loop)          *)
(*   GithubResource.convert_*_to_documents (record normalisation)          *)
(*   SitemapScraperResource.scrape_url   (single page scrape)              *)
(*   PineconeResource.create_index       (create-if-absent)                *)
(* Python values are modelled as tagged records so that None, strings,     *)
(* mappings and lists stay distinguishable: [none], [str], [int], [bool],  *)
(* [dict] (a function from keys to values) and [list] (a sequence).        *)
(***************************************************************************)
EXTENDS Integers, Sequences, FiniteSets, TLC

VARIABLES
    op,          \* which resource method the run exercises
    pc,          \* position of the running method
    objectType,  \* _query: object_type argument
    query,       \* _query: the local `query` (template string or parsed document)
    cursor,      \* _query: the local `cursor`
    results,     \* _query: the local accumulator `results`
    requests,    \* query texts handed to client.execute, in order
    responses,   \* what the endpoint answered to each request, in order
    returned,    \* value handed back to the caller of the method
    items,       \* convert_*_to_documents: the argument `items`
    documents,   \* convert_*_to_documents: the local `documents`
    errorLog,    \* logger.error lines, in order
    url,         \* scrape_url: the argument `url`
    response,    \* scrape_url: what requests.get and the parser produce for the URL
    indexes,     \* the vector-index backend: existing index name -> its parameters
    calls,       \* create_index calls made so far, with the backend before and after
    createCalls  \* invocations of the backend's create operation, in order

fetchVars == <<objectType, query, cursor, results, requests, responses>>
convertVars == <<items, documents>>
scrapeVars == <<url, response>>
indexVars == <<indexes, calls, createCalls>>
vars == <<op, pc, objectType, query, cursor, results, requests, responses, returned,
          items, documents, errorLog, url, response, indexes, calls, createCalls>>

-----------------------------------------------------------------------------
(* Python values *)

None == [none |-> TRUE]
S(s) == [str |-> s]
I(n) == [int |-> n]
B(b) == [bool |-> b]
D(f) == [dict |-> f]
L(q) == [list |-> q]

EmptyMap == [k \in {} |-> None]

IsDict(v) == DOMAIN v = {"dict"}
IsStr(v) == DOMAIN v = {"str"}
IsList(v) == DOMAIN v = {"list"}

\* bool(v) of Python
Truthy(v) ==
    CASE DOMAIN v = {"none"} -> FALSE
      [] DOMAIN v = {"str"} -> v.str /= ""
      [] DOMAIN v = {"int"} -> v.int /= 0
      [] DOMAIN v = {"bool"} -> v.bool
      [] DOMAIN v = {"dict"} -> DOMAIN v.dict /= {}
      [] DOMAIN v = {"list"} -> v.list /= <<>>

\* d.get(k, default) on a mapping d
Get(d, k, default) == IF k \in DOMAIN d.dict THEN d.dict[k] ELSE default

\* k in d, for a mapping d
Has(d, k) == k \in DOMAIN d.dict

\* No value was handed back (the call is still running, or it raised).
NoReturn == [noreturn |-> TRUE]

\* The variables of the methods a run does not exercise stay at these values.
NoFetch ==
    /\ objectType = None /\ query = None /\ cursor = None
    /\ results = <<>> /\ requests = <<>> /\ responses = <<>>
NoConvert == items = <<>> /\ documents = <<>>
NoScrape == url = None /\ response = None
NoIndex == indexes = EmptyMap /\ calls = <<>> /\ createCalls = <<>>

-----------------------------------------------------------------------------
(* Bounds *)

MaxEdges == 2
MaxLabels == 2
MaxComments == 2
MaxItems == 2
MaxCursorLen == 4
MaxCalls == 3
MaxStrings == 2

-----------------------------------------------------------------------------
(* GithubResource._query *)

\* The query template: text around the cursor placeholder.
QueryTemplate == <<"search(after: ", "CURSOR_PLACEHOLDER", ")">>

\* str.replace(old, new) on a text held as a sequence of pieces
Replace(text, old, new) == [i \in DOMAIN text |-> IF text[i] = old THEN new ELSE text[i]]

\* f'"{cursor}"' if cursor else "null"
RenderCursor(c) == IF Truthy(c) THEN "\"" \o c.str \o "\"" ELSE "null"

\* gql(...) parses the text into a document object, which is not a str
Gql(text) == [doc |-> text]

\* query.replace exists only while `query` is still a str
HasReplace(q) == IsStr(q)

Nodes == {S("r1"), S("r2")}
Cursors == {None, S(""), S("c1"), S("c2")}

SeqsUpTo(X, n) == UNION {[1..k -> X] : k \in 0..n}

EdgeLists == {L([i \in DOMAIN q |-> D([node |-> q[i]])]) : q \in SeqsUpTo(Nodes, MaxEdges)}
PageInfos == {D([hasNextPage |-> B(h), endCursor |-> c]) : h \in BOOLEAN, c \in Cursors}

\* client.execute raised after the transport's own retries
TransportError == [raise |-> "TransportError"]

WellFormed == {D([search |-> D([edges |-> e, pageInfo |-> p])]) : e \in EdgeLists, p \in PageInfos}
Malformed ==
    {D(EmptyMap), D([search |-> D(EmptyMap)])}
    \cup {D([search |-> D([edges |-> e])]) : e \in EdgeLists}
    \cup {D([search |-> D([pageInfo |-> p])]) : p \in PageInfos}
Responses == WellFormed \cup Malformed \cup {TransportError}

IsWellFormed(r) == r \in WellFormed
HasNextPage(r) == IsWellFormed(r) /\ r.dict.search.dict.pageInfo.dict.hasNextPage.bool
EndCursor(r) == r.dict.search.dict.pageInfo.dict.endCursor
NodesOf(r) == [i \in DOMAIN r.dict.search.dict.edges.list |-> r.dict.search.dict.edges.list[i].dict.node]

Init ==
    /\ op = "fetch"
    /\ pc = "idle"
    /\ objectType = None
    /\ query = None
    /\ cursor = None
    /\ results = <<>>
    /\ requests = <<>>
    /\ responses = <<>>
    /\ returned = NoReturn
    /\ errorLog = <<>>
    /\ NoConvert /\ NoScrape /\ NoIndex

\* get_issues / get_discussions: enter _query with the template and a null cursor
StartQuery(t) ==
    /\ op = "fetch" /\ pc = "idle"
    /\ pc' = "loop"
    /\ objectType' = S(t)
    /\ query' = S(QueryTemplate)
    /\ cursor' = None
    /\ results' = <<>>
    /\ UNCHANGED <<op, requests, responses, returned, convertVars, errorLog, scrapeVars, indexVars>>

get_issues == StartQuery("issues")
get_discussions == StartQuery("discussions")

\* LoopBody with a missing pageInfo read as "no next page" instead of raising.
LoopBodyLenient(result, acc, cur) ==
    IF result = TransportError
    THEN [end |-> "raise", results |-> acc, cursor |-> cur]
    ELSE LET search == Get(result, "search", None) IN
         IF ~IsDict(search) \/ ~IsList(Get(search, "edges", None))
         THEN [end |-> "raise", results |-> acc, cursor |-> cur]
         ELSE LET edges == Get(search, "edges", None).list
                  acc2 == acc \o [i \in DOMAIN edges |-> Get(edges[i], "node", None)]
                  pageInfo == Get(search, "pageInfo", D(EmptyMap))
              IN  IF ~Truthy(Get(pageInfo, "hasNextPage", None))
                  THEN [end |-> "break", results |-> acc2, cursor |-> cur]
                  ELSE [end |-> "continue", results |-> acc2,
                        cursor |-> Get(pageInfo, "endCursor", None)]

\* What one pass of the loop body does with the answer `result` of client.execute.
\* The outcome is a record: how the pass ends, the accumulator and the cursor after it.
LoopBody(result, acc, cur) ==
    IF result = TransportError
    THEN [end |-> "raise", results |-> acc, cursor |-> cur]
    ELSE LET search == Get(result, "search", None) IN
         IF ~IsDict(search) \/ ~IsList(Get(search, "edges", None))
         THEN [end |-> "raise", results |-> acc, cursor |-> cur]
         ELSE LET edges == Get(search, "edges", None).list
                  acc2 == acc \o [i \in DOMAIN edges |-> Get(edges[i], "node", None)]
                  pageInfo == Get(search, "pageInfo", None)
              IN  IF ~IsDict(pageInfo)
                  THEN [end |-> "raise", results |-> acc2, cursor |-> cur]
                  ELSE IF ~Truthy(Get(pageInfo, "hasNextPage", None))
                       THEN [end |-> "break", results |-> acc2, cursor |-> cur]
                       ELSE [end |-> "continue", results |-> acc2,
                             cursor |-> Get(pageInfo, "endCursor", None)]

\* One pass of `while True` when `query` is still the template string.
Iterate(result) ==
    /\ op = "fetch" /\ pc = "loop"
    /\ HasReplace(query)
    /\ LET text == Replace(query.str, "CURSOR_PLACEHOLDER", RenderCursor(cursor))
           out == LoopBody(result, results, cursor)
       IN  /\ query' = Gql(text)
           /\ requests' = Append(requests, text)
           /\ responses' = Append(responses, result)
           /\ results' = out.results
           /\ cursor' = out.cursor
           /\ pc' = CASE out.end = "raise" -> "raised"
                      [] out.end = "break" -> "returned"
                      [] out.end = "continue" -> "loop"
           /\ returned' = IF out.end = "break" THEN L(out.results) ELSE NoReturn
    /\ UNCHANGED <<op, objectType, convertVars, errorLog, scrapeVars, indexVars>>

\* A later pass: `query` is by now the parsed document, which has no `replace`,
\* so evaluating `query.replace` raises AttributeError before anything is sent.
IterateOnDocument ==
    /\ op = "fetch" /\ pc = "loop"
    /\ ~HasReplace(query)
    /\ pc' = "raised"
    /\ UNCHANGED <<op, fetchVars, returned, convertVars, errorLog, scrapeVars, indexVars>>

Next ==
    \/ get_issues
    \/ get_discussions
    \/ \E result \in Responses : Iterate(result)
    \/ IterateOnDocument

Spec == Init /\ [][Next]_vars

RECURSIVE AllNodes(_)
AllNodes(pages) == IF pages = <<>> THEN <<>> ELSE NodesOf(Head(pages)) \o AllNodes(Tail(pages))

\* C1: served well-formed pages P1..Pn, Pn the first without a next page, a fetch
\* does not raise, issues exactly n requests, stops after Pn and not before, and
\* returns the nodes of P1, then P2, ..., then Pn.
C1_PaginationCompletes ==
    LET n == Len(responses) IN
    /\ pc = "raised" => n > 0 /\ ~IsWellFormed(responses[n])
    /\ pc = "loop" /\ n > 0 => HasNextPage(responses[n])
    /\ pc = "returned" =>
          /\ n > 0 /\ Len(requests) = n
          /\ ~HasNextPage(responses[n])
          /\ \A k \in 1..(n - 1) : HasNextPage(responses[k])
          /\ returned = L(AllNodes(responses))

\* the query text that carries cursor c: null unquoted, a string in double quotes
CarriesCursor(text, c) ==
    text = Replace(QueryTemplate, "CURSOR_PLACEHOLDER",
                   IF c = None THEN "null" ELSE "\"" \o c.str \o "\"")

\* C9: the first request carries the null cursor, and after every response k that
\* has a next page, request k+1 is issued and carries the endCursor of response k.
C9_CursorThreaded ==
    /\ Len(requests) > 0 => CarriesCursor(requests[1], None)
    /\ \A k \in 1..Len(responses) : HasNextPage(responses[k]) =>
          \/ Len(requests) > k /\ CarriesCursor(requests[k + 1], EndCursor(responses[k]))
          \/ Len(requests) = k /\ pc = "loop"

\* C4: a request that fails (the transport raises, or the response lacks search,
\* edges or pageInfo) is the last request of the fetch, the fetch raises, and no
\* list is returned.
C4_FailureAborts ==
    \A k \in 1..Len(responses) : ~IsWellFormed(responses[k]) =>
        /\ k = Len(responses) /\ Len(requests) = k
        /\ pc = "raised"
        /\ returned = NoReturn

\* a page with edges but no pageInfo: records were accumulated, then the fetch raised
C4_Witness ==
    /\ pc = "raised" /\ Len(responses) = 1
    /\ responses[1] \in Malformed
    /\ results /= <<>>
    /\ returned = NoReturn

-----------------------------------------------------------------------------
(* Texts built by f-strings and joins are held as the sequence of their pieces. *)

\* what an f-string placeholder renders a value as
Fmt(v) ==
    CASE DOMAIN v = {"none"} -> "None"
      [] DOMAIN v = {"str"} -> v.str
      [] DOMAIN v = {"int"} -> ToString(v.int)
      [] DOMAIN v = {"bool"} -> IF v.bool THEN "True" ELSE "False"

\* sep.join(parts)
RECURSIVE Join(_, _)
Join(parts, sep) ==
    IF parts = <<>> THEN <<>>
    ELSE IF Len(parts) = 1 THEN parts[1]
    ELSE parts[1] \o <<sep>> \o Join(Tail(parts), sep)

-----------------------------------------------------------------------------
(* GithubResource.convert_issues_to_documents / convert_discussions_to_documents *)

\* `"nodes" in item[key]` raises TypeError, or iterating item[key]["nodes"] does
CollectionRaises(item, key) ==
    /\ Has(item, key)
    /\ \/ ~IsDict(item.dict[key])
       \/ Has(item.dict[key], "nodes") /\ ~IsList(item.dict[key].dict.nodes)

\* the list the loop over item[key]["nodes"] walks; empty when the guard is false
NodesIn(item, key) ==
    IF Has(item, key) /\ Has(item.dict[key], "nodes") THEN item.dict[key].dict.nodes.list ELSE <<>>

\* [label["name"] for label in item["labels"]["nodes"]] or ', '.join(labels) raises
LabelsRaise(item) ==
    \/ CollectionRaises(item, "labels")
    \/ \E i \in DOMAIN NodesIn(item, "labels") :
          LET label == NodesIn(item, "labels")[i]
          IN  ~IsDict(label) \/ ~Has(label, "name") \/ ~IsStr(label.dict.name)

\* the Labels block: appended only when the list of names is non-empty
LabelParts(item) ==
    LET nodes == NodesIn(item, "labels")
        labels == [i \in DOMAIN nodes |-> <<nodes[i].dict.name.str>>]
    IN  IF labels /= <<>> THEN << <<"Labels: ">> \o Join(labels, ", ") >> ELSE <<>>

\* `comment and "body" in comment` raises for a truthy comment that is no container
CommentsRaise(item) ==
    \/ CollectionRaises(item, "comments")
    \/ \E i \in DOMAIN NodesIn(item, "comments") :
          LET comment == NodesIn(item, "comments")[i]
          IN  Truthy(comment) /\ ~IsDict(comment)

\* issues: one Comment block per comment that is truthy and has the key "body"
RECURSIVE IssueCommentParts(_)
IssueCommentParts(nodes) ==
    IF nodes = <<>> THEN <<>>
    ELSE LET comment == Head(nodes)
             rest == IssueCommentParts(Tail(nodes))
         IN  IF Truthy(comment) /\ Has(comment, "body")
             THEN << <<"Comment: ", Fmt(comment.dict.body)>> >> \o rest
             ELSE rest

IssueMetadataRaises(item) == ~IsDict(Get(item, "reactions", D(EmptyMap)))

IssueMetadata(item) ==
    [source |-> S("github_issue"),
     id |-> Get(item, "id", None),
     url |-> Get(item, "url", None),
     title |-> Get(item, "title", None),
     number |-> Get(item, "number", None),
     state |-> Get(item, "state", None),
     created_at |-> Get(item, "createdAt", None),
     closed_at |-> Get(item, "closedAt", None),
     state_reason |-> Get(item, "stateReason", None),
     reaction_count |-> Get(Get(item, "reactions", D(EmptyMap)), "totalCount", I(0))]

\* IssueContentParts with the Labels block appended after the comments
IssueContentPartsLabelsLast(item) ==
    << <<"Title: ", Fmt(Get(item, "title", S("")))>>,
       <<"State: ", Fmt(Get(item, "state", S("")))>>,
       <<"Description: ", Fmt(Get(item, "bodyText", S("")))>> >>
    \o IssueCommentParts(NodesIn(item, "comments"))
    \o LabelParts(item)

IssueContentParts(item) ==
    << <<"Title: ", Fmt(Get(item, "title", S("")))>>,
       <<"State: ", Fmt(Get(item, "state", S("")))>>,
       <<"Description: ", Fmt(Get(item, "bodyText", S("")))>> >>
    \o LabelParts(item)
    \o IssueCommentParts(NodesIn(item, "comments"))

\* The error line the except handler logs; it calls item.get('number') again.
ErrorLine(what, item) == <<"Error processing ", what, " #", Fmt(Get(item, "number", None))>>

\* One pass of the for loop over an issue: a document, a logged error (the record is
\* skipped), or an exception that leaves the function because the handler's own
\* item.get raised.
ConvertIssue(item) ==
    IF ~IsDict(item) THEN [kind |-> "raise"]
    ELSE IF IssueMetadataRaises(item) \/ LabelsRaise(item) \/ CommentsRaise(item)
    THEN [kind |-> "error", line |-> ErrorLine("issue", item)]
    ELSE [kind |-> "doc",
          doc |-> [page_content |-> Join(IssueContentParts(item), "\n\n"),
                   metadata |-> IssueMetadata(item)]]

DiscussionMetadataRaises(item) == ~IsDict(Get(item, "category", D(EmptyMap)))

DiscussionMetadata(item) ==
    [source |-> S("github_discussion"),
     id |-> Get(item, "id", None),
     url |-> Get(item, "url", None),
     created_at |-> Get(item, "createdAt", None),
     title |-> Get(item, "title", None),
     number |-> Get(item, "number", None),
     category |-> Get(Get(item, "category", D(EmptyMap)), "name", None),
     is_answered |-> Get(item, "isAnswered", B(FALSE)),
     upvote_count |-> Get(item, "upvoteCount", I(0))]

\* item['answer'].get raises when a truthy answer is no mapping
AnswerRaises(item) == Truthy(Get(item, "answer", None)) /\ ~IsDict(Get(item, "answer", None))

AnswerParts(item) ==
    IF Truthy(Get(item, "answer", None))
    THEN << <<"Accepted Answer: ", Fmt(Get(item.dict.answer, "bodyText", S("")))>> >>
    ELSE <<>>

\* KeepComment without the comparison against the accepted answer
KeepCommentAlways(item, comment) == TRUE

\* the test that keeps a comment: no answer, or a body text other than the answer's
KeepComment(item, comment) ==
    \/ ~Truthy(Get(item, "answer", None))
    \/ comment.dict.bodyText /= Get(item.dict.answer, "bodyText", None)

RECURSIVE DiscussionCommentParts(_, _)
DiscussionCommentParts(item, nodes) ==
    IF nodes = <<>> THEN <<>>
    ELSE LET comment == Head(nodes)
             rest == DiscussionCommentParts(item, Tail(nodes))
         IN  IF Truthy(comment) /\ Has(comment, "bodyText") /\ KeepComment(item, comment)
             THEN << <<"Comment: ", Fmt(comment.dict.bodyText)>> >> \o rest
             ELSE rest

DiscussionContentParts(item) ==
    << <<"Title: ", Fmt(Get(item, "title", S("")))>>,
       <<"Category: ", Fmt(Get(Get(item, "category", D(EmptyMap)), "name", S("Uncategorized")))>>,
       <<"Question: ", Fmt(Get(item, "bodyText", S("")))>> >>
    \o AnswerParts(item)
    \o DiscussionCommentParts(item, NodesIn(item, "comments"))
    \o LabelParts(item)

ConvertDiscussion(item) ==
    IF ~IsDict(item) THEN [kind |-> "raise"]
    ELSE IF \/ DiscussionMetadataRaises(item) \/ AnswerRaises(item)
            \/ CommentsRaise(item) \/ LabelsRaise(item)
    THEN [kind |-> "error", line |-> ErrorLine("discussion", item)]
    ELSE [kind |-> "doc",
          doc |-> [page_content |-> Join(DiscussionContentParts(item), "\n\n"),
                   metadata |-> DiscussionMetadata(item)]]

\* The for loop over `todo`, from the accumulated documents and error lines.
RECURSIVE ConvertLoop(_, _, _, _)
ConvertLoop(what, todo, docs, errs) ==
    IF todo = <<>> THEN [end |-> "returned", documents |-> docs, errorLog |-> errs]
    ELSE LET out == IF what = "issue" THEN ConvertIssue(Head(todo))
                    ELSE ConvertDiscussion(Head(todo))
         IN  CASE out.kind = "raise" -> [end |-> "raised", documents |-> docs, errorLog |-> errs]
               [] out.kind = "error" -> ConvertLoop(what, Tail(todo), docs, Append(errs, out.line))
               [] out.kind = "doc" -> ConvertLoop(what, Tail(todo), Append(docs, out.doc), errs)

ConvertCall(name, what) ==
    /\ op = name /\ pc = "called"
    /\ LET r == ConvertLoop(what, items, <<>>, <<>>)
       IN  /\ pc' = r.end
           /\ documents' = r.documents
           /\ errorLog' = r.errorLog
           /\ returned' = IF r.end = "returned" THEN L(r.documents) ELSE NoReturn
    /\ UNCHANGED <<op, items, fetchVars, scrapeVars, indexVars>>

convert_issues_to_documents == ConvertCall("convert_issues_to_documents", "issue")
convert_discussions_to_documents == ConvertCall("convert_discussions_to_documents", "discussion")

NextConvert ==
    \/ convert_issues_to_documents
    \/ convert_discussions_to_documents

(* Raw records *)

Absent == [absent |-> TRUE]
ItemField(k, v) == IF v = Absent THEN EmptyMap ELSE (k :> v)

LabelNames == {"bug", "docs"}
LabelColls ==
    {Absent, None, D(EmptyMap)}
    \cup {D([nodes |-> L([i \in DOMAIN q |-> D([name |-> S(q[i])])])]) :
            q \in SeqsUpTo(LabelNames, MaxLabels)}

IssueBase ==
    [id |-> S("I_1"), url |-> S("https://github.com/o/r/issues/1"), number |-> I(1),
     state |-> S("OPEN"), bodyText |-> S("B"), createdAt |-> S("2024-01-01"),
     closedAt |-> None, stateReason |-> None]
Titles == {Absent, S("T")}
Reactions == {Absent, None, D(EmptyMap), D([totalCount |-> I(3)])}
IssueComments == {None, D(EmptyMap), D([body |-> S("x")]), D([body |-> S("y")])}
IssueCommentColls ==
    {Absent, None, D(EmptyMap)}
    \cup {D([nodes |-> L(q)]) : q \in SeqsUpTo(IssueComments, MaxComments)}
Issues ==
    {D(ItemField("title", t) @@ ItemField("reactions", r) @@ ItemField("labels", l)
       @@ ItemField("comments", c) @@ IssueBase) :
        t \in Titles, r \in Reactions, l \in LabelColls, c \in IssueCommentColls}

DiscussionBase ==
    [id |-> S("D_7"), url |-> S("https://github.com/o/r/discussions/7"), number |-> I(7),
     title |-> S("T"), bodyText |-> S("Q"), createdAt |-> S("2024-01-01")]
Categories == {Absent, None, D(EmptyMap), D([name |-> S("Q&A")])}
Stats == {EmptyMap, [isAnswered |-> B(TRUE), upvoteCount |-> I(5)]}
Answers == {Absent, None, D([bodyText |-> S("")]), D([bodyText |-> S("x")])}
DiscussionComments ==
    {None, D(EmptyMap), D([bodyText |-> S("")]), D([bodyText |-> S("x")]),
     D([bodyText |-> S("y")])}
DiscussionCommentColls ==
    {Absent, None, D(EmptyMap)}
    \cup {D([nodes |-> L(q)]) : q \in SeqsUpTo(DiscussionComments, MaxComments)}
Discussions ==
    {D(ItemField("category", g) @@ st @@ ItemField("answer", a) @@ ItemField("labels", l)
       @@ ItemField("comments", c) @@ DiscussionBase) :
        g \in Categories, st \in Stats, a \in Answers, l \in LabelColls,
        c \in DiscussionCommentColls}

\* One record at a time: every raw record shape, in a list of its own.
InitNormalize ==
    /\ op \in {"convert_issues_to_documents", "convert_discussions_to_documents"}
    /\ pc = "called"
    /\ items \in {<<it>> : it \in IF op = "convert_issues_to_documents" THEN Issues ELSE Discussions}
    /\ documents = <<>>
    /\ errorLog = <<>>
    /\ returned = NoReturn
    /\ NoFetch /\ NoScrape /\ NoIndex

SpecNormalize == InitNormalize /\ [][NextConvert]_vars

\* Lists of records, among them entries that are null or no mapping at all.
ListIssues ==
    {None, S("not a mapping"),
     D(IssueBase),
     D(("labels" :> None) @@ IssueBase),
     D(("comments" :> D([nodes |-> L(<<D([body |-> S("x")])>>)])) @@ IssueBase)}
ListDiscussions ==
    {None, S("not a mapping"),
     D(DiscussionBase),
     D(("category" :> None) @@ DiscussionBase),
     D(("answer" :> D([bodyText |-> S("x")])) @@ DiscussionBase)}

InitConvert ==
    /\ op \in {"convert_issues_to_documents", "convert_discussions_to_documents"}
    /\ pc = "called"
    /\ items \in SeqsUpTo(IF op = "convert_issues_to_documents" THEN ListIssues ELSE ListDiscussions,
                          MaxItems)
    /\ documents = <<>>
    /\ errorLog = <<>>
    /\ returned = NoReturn
    /\ NoFetch /\ NoScrape /\ NoIndex

SpecConvert == InitConvert /\ [][NextConvert]_vars

-----------------------------------------------------------------------------
(* Reading a document back: the blocks of a page text *)

\* text.split(sep) on a text held as pieces
RECURSIVE Split(_, _, _)
Split(text, sep, block) ==
    IF text = <<>> THEN <<block>>
    ELSE IF Head(text) = sep THEN <<block>> \o Split(Tail(text), sep, <<>>)
    ELSE Split(Tail(text), sep, Append(block, Head(text)))

Blocks(doc) == Split(doc.page_content, "\n\n", <<>>)
BlocksTagged(doc, tag) == SelectSeq(Blocks(doc), LAMBDA b : b /= <<>> /\ b[1] = tag)

\* the comments of a raw record that carry the text field `key`, in order
TextsOfComments(item, key) ==
    LET carrying == SelectSeq(NodesIn(item, "comments"),
                              LAMBDA c : IsDict(c) /\ key \in DOMAIN c.dict)
    IN  [i \in DOMAIN carrying |-> carrying[i].dict[key].str]

\* the names of the labels of a raw record, in order
NamesOfLabels(item) ==
    [i \in DOMAIN NodesIn(item, "labels") |-> NodesIn(item, "labels")[i].dict.name.str]

\* names separated by ", "
CommaJoined(names) ==
    [i \in 1..(2 * Len(names) - 1) |-> IF i % 2 = 1 THEN names[(i + 1) \div 2] ELSE ", "]

IsIssueRun == op = "convert_issues_to_documents"
IsDiscussionRun == op = "convert_discussions_to_documents"

\* C2: whatever the shape of a record that fails normalization, the conversion
\* returns normally, with one document per other record and one error line per
\* failing record.
C2_BadRecordsSkipped ==
    pc /= "called" =>
        LET bad == {i \in DOMAIN items :
                      (IF IsIssueRun THEN ConvertIssue(items[i])
                       ELSE ConvertDiscussion(items[i])).kind /= "doc"}
        IN  /\ pc = "returned"
            /\ Len(documents) = Len(items) - Cardinality(bad)
            /\ Len(errorLog) = Cardinality(bad)
            /\ returned = L(documents)

\* a field that is absent from the mapping or null
Missing(item, key) == ~Has(item, key) \/ item.dict[key] = None

\* C3: a record whose optional fields are absent or null yields exactly one
\* document with the defaults applied, and no error is logged.
C3_SparseNeverDropped ==
    pc = "returned" =>
        /\ Len(documents) = 1
        /\ errorLog = <<>>
        /\ LET item == items[1]
               doc == documents[1]
           IN  /\ Missing(item, "labels") => BlocksTagged(doc, "Labels: ") = <<>>
               /\ Missing(item, "comments") => BlocksTagged(doc, "Comment: ") = <<>>
               /\ IsIssueRun /\ Missing(item, "reactions") => doc.metadata.reaction_count = I(0)
               /\ IsDiscussionRun /\ Missing(item, "isAnswered") => doc.metadata.is_answered = B(FALSE)
               /\ IsDiscussionRun /\ Missing(item, "upvoteCount") => doc.metadata.upvote_count = I(0)
               /\ IsDiscussionRun /\ Missing(item, "category") =>
                     /\ doc.metadata.category = None
                     /\ BlocksTagged(doc, "Category: ") = << <<"Category: ", "Uncategorized">> >>
               /\ IsDiscussionRun /\ Missing(item, "answer") =>
                     BlocksTagged(doc, "Accepted Answer: ") = <<>>

HasAnswer(item) == Has(item, "answer") /\ IsDict(item.dict.answer)

\* C5: the document of a discussion with an accepted answer has one Accepted
\* Answer block and a Comment block for exactly the comments whose body text
\* differs from the answer's, in order; without an answer it has no Accepted
\* Answer block and a Comment block for every comment that carries a body text.
C5_AnswerDeduplicated ==
    IsDiscussionRun /\ pc = "returned" /\ Len(documents) = 1 =>
        LET item == items[1]
            doc == documents[1]
            texts == TextsOfComments(item, "bodyText")
            comments == BlocksTagged(doc, "Comment: ")
        IN  IF HasAnswer(item)
            THEN LET answer == item.dict.answer.dict.bodyText.str
                     kept == SelectSeq(texts, LAMBDA t : t /= answer)
                 IN  /\ BlocksTagged(doc, "Accepted Answer: ") = << <<"Accepted Answer: ", answer>> >>
                     /\ comments = [i \in DOMAIN kept |-> <<"Comment: ", kept[i]>>]
            ELSE /\ BlocksTagged(doc, "Accepted Answer: ") = <<>>
                 /\ comments = [i \in DOMAIN texts |-> <<"Comment: ", texts[i]>>]

\* the answer's text also stands as the first of two comments: only the other
\* comment gets a Comment block
C5_Witness ==
    /\ IsDiscussionRun /\ pc = "returned" /\ Len(documents) = 1
    /\ HasAnswer(items[1])
    /\ TextsOfComments(items[1], "bodyText") = <<"x", "y">>
    /\ items[1].dict.answer.dict.bodyText.str = "x"
    /\ BlocksTagged(documents[1], "Comment: ") = << <<"Comment: ", "y">> >>

\* C6: the page text of an issue is, in order, the Title, State and Description
\* blocks, one Labels block with the comma-joined names iff there are labels,
\* then one Comment block per comment that has a body, in comment order; with no
\* labels and no comments keys it is exactly the first three blocks.
C6_IssueBlocksInOrder ==
    IsIssueRun /\ pc = "returned" /\ Len(documents) = 1 =>
        LET item == items[1]
            names == NamesOfLabels(item)
            bodies == TextsOfComments(item, "body")
            blocks == Blocks(documents[1])
        IN  /\ blocks =
                 << <<"Title: ", IF Has(item, "title") THEN item.dict.title.str ELSE "">>,
                    <<"State: ", item.dict.state.str>>,
                    <<"Description: ", item.dict.bodyText.str>> >>
                 \o (IF names /= <<>> THEN << <<"Labels: ">> \o CommaJoined(names) >> ELSE <<>>)
                 \o [i \in DOMAIN bodies |-> <<"Comment: ", bodies[i]>>]
            /\ ~Has(item, "labels") /\ ~Has(item, "comments") => Len(blocks) = 3

\* two labels and two comments with a body: six blocks, labels before comments
C6_Witness ==
    /\ IsIssueRun /\ pc = "returned" /\ Len(documents) = 1
    /\ NamesOfLabels(items[1]) = <<"docs", "bug">>
    /\ TextsOfComments(items[1], "body") = <<"y", "x">>
    /\ Len(Blocks(documents[1])) = 6
    /\ Blocks(documents[1])[4] = <<"Labels: ", "docs", ", ", "bug">>

-----------------------------------------------------------------------------
(* The cursor substitution of _query applied to one cursor value *)

Alphabet == {"a", "b", "="}

RECURSIVE Strings(_)
Strings(n) ==
    IF n = 0 THEN {""}
    ELSE LET shorter == Strings(n - 1) IN shorter \cup {s \o a : s \in shorter, a \in Alphabet}

CursorInputs == {None} \cup {S(s) : s \in Strings(MaxCursorLen)}

InitRender ==
    /\ op = "render"
    /\ pc = "called"
    /\ objectType = None
    /\ query = S(QueryTemplate)
    /\ cursor \in CursorInputs
    /\ results = <<>> /\ requests = <<>> /\ responses = <<>>
    /\ returned = NoReturn
    /\ errorLog = <<>>
    /\ NoConvert /\ NoScrape /\ NoIndex

\* query = gql(query.replace("CURSOR_PLACEHOLDER", ...)) on the template
RenderQuery ==
    /\ op = "render" /\ pc = "called"
    /\ query' = Gql(Replace(query.str, "CURSOR_PLACEHOLDER", RenderCursor(cursor)))
    /\ pc' = "done"
    /\ UNCHANGED <<op, objectType, cursor, results, requests, responses, returned,
                   convertVars, errorLog, scrapeVars, indexVars>>

NextRender == RenderQuery

SpecRender == InitRender /\ [][NextRender]_vars

\* C10: a null cursor is substituted as the unquoted literal null, every other
\* cursor, the empty string included, as the string in double quotes.
C10_CursorRendered ==
    op = "render" /\ pc = "done" => CarriesCursor(query.doc, cursor)

-----------------------------------------------------------------------------
(* PineconeResource.create_index *)

DefaultDimension == 1536

IndexNames == {"docs", "github-issues", "github-discussions"}
Dimensions == {DefaultDimension, 768}

\* the keyword arguments of self._pinecone.create_index
CreateArgs(name, dimension) ==
    [name |-> name, dimension |-> dimension, metric |-> "cosine",
     spec |-> [serverless |-> [cloud |-> "aws", region |-> "us-east-1"]]]

\* an index somebody else made before the run
ForeignIndex(name) ==
    [name |-> name, dimension |-> 768, metric |-> "dotproduct",
     spec |-> [serverless |-> [cloud |-> "gcp", region |-> "europe-west4"]]]

\* create unconditionally
ShouldCreateAlways(name, existing) == TRUE

\* index_name not in self._pinecone.list_indexes().names()
ShouldCreate(name, existing) == name \notin existing

\* One create_index call. The backend refuses to create a name it already has.
create_index(name, dimension) ==
    /\ op = "index" /\ pc = "idle"
    /\ Len(calls) < MaxCalls
    /\ LET create == ShouldCreate(name, DOMAIN indexes)
           conflict == create /\ name \in DOMAIN indexes
       IN  /\ createCalls' = IF create
                             THEN Append(createCalls, [call |-> Len(calls) + 1,
                                                       args |-> CreateArgs(name, dimension)])
                             ELSE createCalls
           /\ indexes' = IF create /\ ~conflict
                         THEN (name :> CreateArgs(name, dimension)) @@ indexes
                         ELSE indexes
           /\ calls' = Append(calls, [name |-> name, dimension |-> dimension,
                                      before |-> indexes, after |-> indexes',
                                      raised |-> conflict])
    /\ UNCHANGED <<op, pc, fetchVars, returned, convertVars, errorLog, scrapeVars>>

InitIndex ==
    /\ op = "index"
    /\ pc = "idle"
    /\ indexes \in {[n \in existing |-> ForeignIndex(n)] : existing \in SUBSET IndexNames}
    /\ calls = <<>>
    /\ createCalls = <<>>
    /\ returned = NoReturn
    /\ errorLog = <<>>
    /\ NoFetch /\ NoConvert /\ NoScrape

NextIndex == \E name \in IndexNames, dimension \in Dimensions : create_index(name, dimension)

SpecIndex == InitIndex /\ [][NextIndex]_vars

\* C8: the backend's create is invoked for a name only when the name is not among
\* the existing indexes at the time of the call, so no name is created twice and a
\* call for an existing name changes nothing; every creation asks for the cosine
\* metric and the serverless aws/us-east-1 spec.
C8_CreateIdempotent ==
    /\ \A i \in DOMAIN createCalls :
          LET c == createCalls[i] IN
          /\ c.args.name = calls[c.call].name
          /\ c.args.name \notin DOMAIN calls[c.call].before
          /\ c.args.metric = "cosine"
          /\ c.args.spec = [serverless |-> [cloud |-> "aws", region |-> "us-east-1"]]
    /\ \A i, j \in DOMAIN createCalls :
          createCalls[i].args.name = createCalls[j].args.name => i = j
    /\ \A k \in DOMAIN calls :
          calls[k].name \in DOMAIN calls[k].before =>
              /\ calls[k].after = calls[k].before
              /\ \A i \in DOMAIN createCalls : createCalls[i].call /= k
              /\ ~calls[k].raised

\* the same name asked for twice: created by the first call, left alone by the second
C8_Witness ==
    /\ Len(calls) = 2
    /\ calls[1].name = calls[2].name
    /\ calls[1].name \notin DOMAIN calls[1].before
    /\ Len(createCalls) = 1
    /\ calls[2].after = calls[2].before

-----------------------------------------------------------------------------
(* SitemapScraperResource.scrape_url *)

\* A parsed page is a list of nodes: a text node holds a string as its sequence of
\* characters, an element has a tag and child nodes.
Text(chars) == [text |-> chars]
Elem(tag, kids) == [tag |-> tag, kids |-> kids]
IsText(n) == "text" \in DOMAIN n

NonContentTags == {"script", "style", "nav", "footer", "header"}

\* for element in soup([...]): element.decompose()
RECURSIVE Decompose(_)
Decompose(nodes) ==
    IF nodes = <<>> THEN <<>>
    ELSE LET n == Head(nodes) IN
         IF IsText(n) THEN <<n>> \o Decompose(Tail(nodes))
         ELSE IF n.tag \in NonContentTags THEN Decompose(Tail(nodes))
         ELSE <<Elem(n.tag, Decompose(n.kids))>> \o Decompose(Tail(nodes))

\* soup.find(tag): the first element with the tag in document order, else None
RECURSIVE Find(_, _)
Find(nodes, tag) ==
    IF nodes = <<>> THEN None
    ELSE LET n == Head(nodes) IN
         IF IsText(n) THEN Find(Tail(nodes), tag)
         ELSE IF n.tag = tag THEN n
         ELSE LET inner == Find(n.kids, tag) IN
              IF inner /= None THEN inner ELSE Find(Tail(nodes), tag)

\* the strings below the nodes, in document order
RECURSIVE StringsIn(_)
StringsIn(nodes) ==
    IF nodes = <<>> THEN <<>>
    ELSE LET n == Head(nodes) IN
         (IF IsText(n) THEN <<n.text>> ELSE StringsIn(n.kids)) \o StringsIn(Tail(nodes))

Whitespace == {" ", "\n"}

RECURSIVE LStrip(_)
LStrip(chars) == IF chars /= <<>> /\ Head(chars) \in Whitespace THEN LStrip(Tail(chars)) ELSE chars

RECURSIVE RStrip(_)
RStrip(chars) ==
    IF chars /= <<>> /\ chars[Len(chars)] \in Whitespace
    THEN RStrip(SubSeq(chars, 1, Len(chars) - 1))
    ELSE chars

\* str.strip()
Strip(chars) == RStrip(LStrip(chars))

\* [s.strip() for s in node.stripped_strings if s.strip()]
StrippedStrings(nodes) ==
    LET stripped == [i \in DOMAIN StringsIn(nodes) |-> Strip(StringsIn(nodes)[i])]
    IN  SelectSeq(stripped, LAMBDA chars : Strip(chars) /= <<>>)

\* soup.title.string if soup.title else ""
TitleOf(soup) ==
    LET title == Find(soup, "title") IN
    IF title = None THEN Text(<<>>)
    ELSE IF Len(title.kids) = 1 /\ IsText(title.kids[1]) THEN title.kids[1]
    ELSE None

\* soup.find("main") or soup.find("article") or soup.body
MainContent(soup) ==
    IF Find(soup, "main") /= None THEN Find(soup, "main")
    ELSE IF Find(soup, "article") /= None THEN Find(soup, "article")
    ELSE Find(soup, "body")

TextContent(soup) ==
    IF MainContent(soup) /= None
    THEN Join(StrippedStrings(MainContent(soup).kids), "\n")
    ELSE Join(StrippedStrings(soup), "\n")

\* the Document the try block builds from a parsed page
ScrapedDocument(u, soup) ==
    LET clean == Decompose(soup)
    IN  [page_content |-> TextContent(clean),
         metadata |-> [source |-> u, title |-> TitleOf(clean)]]

\* the try block starts after requests.get
AbsorbsAfterFetch(stage) == stage /= "fetch"

\* try ... except Exception spans every statement that can fail
Absorbs(stage) == TRUE

scrape_url ==
    /\ op = "scrape" /\ pc = "called"
    /\ IF response.fault = "none"
       THEN /\ pc' = "returned"
            /\ returned' = ScrapedDocument(url, response.soup)
            /\ errorLog' = errorLog
       ELSE IF Absorbs(response.fault)
       THEN /\ pc' = "returned"
            /\ returned' = None
            /\ errorLog' = Append(errorLog, <<"Error scraping URL ", url.str>>)
       ELSE /\ pc' = "raised"
            /\ returned' = NoReturn
            /\ errorLog' = errorLog
    /\ UNCHANGED <<op, fetchVars, convertVars, scrapeVars, indexVars>>

(* Pages *)

Urls == {S("https://docs.example/a"), S("https://docs.example/b")}

Leaves ==
    {Text(<<"H", "i">>), Text(<<" ", "A", "\n">>), Text(<<" ">>),
     Elem("script", <<Text(<<"x">>)>>), Elem("p", <<Text(<<"B">>)>>)}

\* no title tag, an empty one, one with a text
Titled == {"no", "empty", "text"}

Page(titled, container, wrapped, inner) ==
    LET head == CASE titled = "no" -> <<>>
                  [] titled = "empty" -> <<Elem("head", <<Elem("title", <<>>)>>)>>
                  [] titled = "text" -> <<Elem("head", <<Elem("title", <<Text(<<"D">>)>>)>>)>>
        region == IF container = "none" THEN inner ELSE <<Elem(container, inner)>>
        around == <<Elem("header", <<Text(<<"t", "o", "p">>)>>)>> \o region \o <<Text(<<"e", "n", "d">>)>>
    IN  head \o (IF wrapped THEN <<Elem("body", around)>> ELSE around)

Pages ==
    {Page(t, c, w, inner) :
        t \in Titled, c \in {"main", "article", "div", "none"}, w \in BOOLEAN,
        inner \in SeqsUpTo(Leaves, MaxStrings)}

\* requests.get raised, or a page arrived and a later step may still fail
Outcomes ==
    {[fault |-> "fetch"]}
    \cup {[fault |-> f, soup |-> page] : f \in {"none", "parse", "extract"}, page \in Pages}

InitScrape ==
    /\ op = "scrape"
    /\ pc = "called"
    /\ url \in Urls
    /\ response \in Outcomes
    /\ returned = NoReturn
    /\ errorLog = <<>>
    /\ NoFetch /\ NoConvert /\ NoIndex

NextScrape == scrape_url

SpecScrape == InitScrape /\ [][NextScrape]_vars

\* C7: scrape_url never raises: when the fetch, the parsing or the extraction
\* fails it logs the failure and returns None, otherwise it returns one Document
\* whose metadata source is the URL.
C7_ScrapeAbsorbsFailure ==
    op = "scrape" /\ pc /= "called" =>
        /\ pc = "returned"
        /\ IF response.fault /= "none"
           THEN returned = None /\ errorLog = << <<"Error scraping URL ", url.str>> >>
           ELSE /\ DOMAIN returned = {"page_content", "metadata"}
                /\ returned.metadata.source = url
                /\ errorLog = <<>>

\* the request itself failed: one error line, no document, no exception
C7_Witness ==
    /\ op = "scrape" /\ pc = "returned"
    /\ response.fault = "fetch"
    /\ returned = None
    /\ Len(errorLog) = 1

====
